---- MODULE Spec2Model ----
(***************************************************************************)
(* Model of the frontmatter tag-merge engine of the file-frontmatter       *)
(* plugin (manageFrontmatterTags and its helpers).                         *)
(*                                                                         *)
(* A string is a sequence of one-character strings.  Positions are the     *)
(* 0-based positions of JavaScript, so that indexOf / substring read as in *)
(* the source.                                                             *)
(***************************************************************************)
EXTENDS Integers, Sequences, FiniteSets, TLC

\* ------------------------------------------------------------------------
\* JavaScript string primitives
\* ------------------------------------------------------------------------

UpperLetters ==
  <<"A","B","C","D","E","F","G","H","I","J","K","L","M",
    "N","O","P","Q","R","S","T","U","V","W","X","Y","Z">>

LowerLetters ==
  <<"a","b","c","d","e","f","g","h","i","j","k","l","m",
    "n","o","p","q","r","s","t","u","v","w","x","y","z">>

DigitChars == {"0","1","2","3","4","5","6","7","8","9"}

\* the class \s of the regular expressions
SpaceChars == {" ", "\t", "\n", "\r"}

\* the class \w of the regular expressions
WordChars ==
  {UpperLetters[i] : i \in 1..26} \cup {LowerLetters[i] : i \in 1..26}
    \cup DigitChars \cup {"_"}

QuoteChars == {"\"", "'"}

MinOf(S) == CHOOSE x \in S : \A y \in S : x <= y

MaxOf(S) == CHOOSE x \in S : \A y \in S : x >= y

Clamp(i, n) == IF i < 0 THEN 0 ELSE IF i > n THEN n ELSE i

toLowerChar(c) ==
  IF \E i \in 1..26 : UpperLetters[i] = c
  THEN LowerLetters[CHOOSE i \in 1..26 : UpperLetters[i] = c]
  ELSE c

toUpperChar(c) ==
  IF \E i \in 1..26 : LowerLetters[i] = c
  THEN UpperLetters[CHOOSE i \in 1..26 : LowerLetters[i] = c]
  ELSE c

toLowerCase(s) == [i \in 1..Len(s) |-> toLowerChar(s[i])]

\* the upper-case form of one character: the sharp s becomes two letters
upperOf(c) == IF c = "ß" THEN <<"S", "S">> ELSE <<toUpperChar(c)>>

\* s.toUpperCase()
RECURSIVE toUpperCase(_)
toUpperCase(s) ==
  IF Len(s) = 0 THEN <<>> ELSE upperOf(s[1]) \o toUpperCase(Tail(s))

\* s.substring(a, b): arguments are clamped to 0..length and swapped if a > b
substring(s, a, b) ==
  LET a1 == Clamp(a, Len(s))
      b1 == Clamp(b, Len(s))
  IN  IF a1 <= b1 THEN SubSeq(s, a1 + 1, b1) ELSE SubSeq(s, b1 + 1, a1)

\* s.substring(a)
substringFrom(s, a) == substring(s, a, Len(s))

\* true iff pat occurs in s at 0-based position i
occursAt(s, pat, i) ==
  /\ i >= 0
  /\ i + Len(pat) <= Len(s)
  /\ \A k \in 1..Len(pat) : s[i + k] = pat[k]

\* s.indexOf(pat, from)
indexOf(s, pat, from) ==
  LET hits == {i \in Clamp(from, Len(s))..(Len(s) - Len(pat)) : occursAt(s, pat, i)}
  IN  IF hits = {} THEN -1 ELSE MinOf(hits)

startsWith(s, pat) == occursAt(s, pat, 0)

includes(s, pat) == indexOf(s, pat, 0) # -1

\* s.trim()
trim(s) ==
  LET keep == {i \in 1..Len(s) : s[i] \notin SpaceChars}
  IN  IF keep = {} THEN <<>> ELSE SubSeq(s, MinOf(keep), MaxOf(keep))

\* s.replace(/[cls]/g, '') : every character of the class removed
removeChars(s, cls) == SelectSeq(s, LAMBDA c : c \notin cls)

\* s.replace(/[cls]+/g, rep) : every maximal run of the class becomes rep
replaceRuns(s, cls, rep) ==
  LET all  == [i \in 1..Len(s) |-> i]
      idx  == SelectSeq(all, LAMBDA i : ~(s[i] \in cls /\ i > 1 /\ s[i - 1] \in cls))
  IN  [k \in 1..Len(idx) |-> IF s[idx[k]] \in cls THEN rep ELSE s[idx[k]]]

\* parts.join(sep) for a sequence of strings
RECURSIVE join(_, _)
join(parts, sep) ==
  IF Len(parts) = 0 THEN <<>>
  ELSE IF Len(parts) = 1 THEN parts[1]
  ELSE parts[1] \o sep \o join(Tail(parts), sep)

\* s.split(sep) for a one-character separator
RECURSIVE split(_, _)
split(s, sep) ==
  LET hits == {i \in 1..Len(s) : s[i] = sep}
  IN  IF hits = {} THEN <<s>>
      ELSE <<SubSeq(s, 1, MinOf(hits) - 1)>>
             \o split(SubSeq(s, MinOf(hits) + 1, Len(s)), sep)

\* 0-based position of the first character at or after p that is not in \s
\* (the length of s when there is none): where a greedy \s* started at p stops
wsEnd(s, p) ==
  LET stops == {i \in p..(Len(s) - 1) : s[i + 1] \notin SpaceChars}
  IN  IF stops = {} THEN Len(s) ELSE MinOf(stops)

\* ------------------------------------------------------------------------
\* Tag formatting and spelling (libs/utils.ts, libs/spellingNormalizer)
\* ------------------------------------------------------------------------

CaseFormats == {"lowercase", "uppercase", "titlecase", "retain"}

LanguagePreferences == {"uk", "us"}

\* word.charAt(0).toUpperCase() + word.slice(1).toLowerCase()
titleWord(word) ==
  IF Len(word) = 0 THEN <<>>
  ELSE upperOf(word[1]) \o toLowerCase(SubSeq(word, 2, Len(word)))

formatTagHyphenPerSpace(tag, caseFormat) ==
  toLowerCase([i \in 1..Len(tag) |-> IF tag[i] \in SpaceChars THEN "-" ELSE tag[i]])

formatTag(tag, caseFormat) ==
  LET formattedTag == replaceRuns(removeChars(tag, {"\""}), SpaceChars, "-")
  IN  CASE caseFormat = "lowercase" -> toLowerCase(formattedTag)
        [] caseFormat = "uppercase" -> toUpperCase(formattedTag)
        [] caseFormat = "titlecase" ->
             LET words == split(formattedTag, "-")
             IN  join([i \in 1..Len(words) |-> titleWord(words[i])], <<"-">>)
        [] caseFormat = "retain"    -> formattedTag
        [] OTHER                    -> toLowerCase(formattedTag)

\* the table of regional spelling pairs, <<uk, us>>, in the order of the
\* entries of spellingVariants.json
spellingVariants ==
  << << <<"c","o","l","o","u","r">>, <<"c","o","l","o","r">> >>,
     << <<"g","r","e","y">>,         <<"g","r","a","y">> >> >>

normalizeSpellingAsTyped(text, languagePreference) == text

normalizeSpelling(text, languagePreference) ==
  LET lowercased == toLowerCase(text)
      hits == {i \in 1..Len(spellingVariants) :
                  \/ lowercased = toLowerCase(spellingVariants[i][1])
                  \/ lowercased = toLowerCase(spellingVariants[i][2])}
  IN  IF hits = {} THEN text
      ELSE LET entry     == spellingVariants[MinOf(hits)]
               preferred == IF languagePreference = "uk" THEN entry[1] ELSE entry[2]
           IN  IF text[1] = toUpperChar(text[1])
               THEN <<toUpperChar(preferred[1])>> \o SubSeq(preferred, 2, Len(preferred))
               ELSE preferred

normalizeForComparison(text) ==
  replaceRuns(
    replaceRuns(
      SelectSeq(toLowerCase(text),
                LAMBDA c : c \in WordChars \cup SpaceChars \cup {"-"}),
      SpaceChars, "-"),
    {"-"}, "-")

\* ------------------------------------------------------------------------
\* Tag validation (libs/utils.ts)
\* ------------------------------------------------------------------------

\* 0-based position of the first character at or after p that is not in cls
classEnd(s, p, cls) ==
  MinOf({i \in p..(Len(s) - 1) : s[i + 1] \notin cls} \cup {Len(s)})

\* s.split(/[cls]+/g): the pieces between the runs of the class, the empty
\* piece before a leading run and after a trailing run included
RECURSIVE splitOnRuns(_, _)
splitOnRunsAt(s, cls, hits) ==
  IF hits = {} THEN <<s>>
  ELSE <<SubSeq(s, 1, MinOf(hits) - 1)>>
         \o splitOnRuns(substringFrom(s, classEnd(s, MinOf(hits) - 1, cls)), cls)

splitOnRuns(s, cls) == splitOnRunsAt(s, cls, {i \in 1..Len(s) : s[i] \in cls})

\* str.trim().replace(/[-_]+/g, ' ').split(/\s+/g).length
countWords(str) == Len(splitOnRuns(replaceRuns(trim(str), {"-", "_"}, " "), SpaceChars))

isValidTag(tag, maxWordsPerTag) ==
  IF maxWordsPerTag = 1 THEN countWords(tag) <= 2
  ELSE countWords(tag) <= maxWordsPerTag

\* an answer that marks the list erroneous when any tag was dropped
filterMarkingAnyDropped(tagList, maxWordsPerTag) ==
  [validTags |-> SelectSeq(tagList, LAMBDA tag : isValidTag(tag, maxWordsPerTag)),
   hasErroneousTags |->
     Len(SelectSeq(tagList, LAMBDA tag : isValidTag(tag, maxWordsPerTag))) < Len(tagList)]

filterErroneousTags(tagList, maxWordsPerTag) ==
  [validTags |-> SelectSeq(tagList, LAMBDA tag : isValidTag(tag, maxWordsPerTag)),
   hasErroneousTags |->
     Len(SelectSeq(tagList, LAMBDA tag : isValidTag(tag, maxWordsPerTag))) = 0]

\* ------------------------------------------------------------------------
\* Serialising and parsing the tags field (handlers/tags revision kept in
\* handlers/modals.ts)
\* ------------------------------------------------------------------------

formatTagsList(tags, tagCaseFormat, prefix, wrapper) ==
  [i \in 1..Len(tags) |-> prefix \o wrapper \o formatTag(tags[i], tagCaseFormat) \o wrapper]

\* a serialiser that joins the items with a blank instead of a line break
formatTagsOnOneLine(tags, tagCaseFormat) ==
  join(formatTagsList(tags, tagCaseFormat, <<"-", " ">>, <<>>), <<" ">>)

formatTagsAsYamlList(tags, tagCaseFormat) ==
  join(formatTagsList(tags, tagCaseFormat, <<"-", " ">>, <<>>), <<"\n">>)

TagsKey == <<"t","a","g","s",":">>

\* positions at which the text `tags:` occurs, case ignored (the /i flag)
tagsKeyPositions(s) ==
  LET low == toLowerCase(s)
  IN  {i \in 0..(Len(s) - 5) : occursAt(low, TagsKey, i)}

\* end of a match of \s*\n started at j (greedy: through the last newline of
\* the whitespace run), -1 when the run holds no newline
wsNewlineEnd(s, j) ==
  LET nls == {i \in j..(wsEnd(s, j) - 1) : s[i + 1] = "\n"}
  IN  IF nls = {} THEN -1 ELSE MaxOf(nls) + 1

\* end of a match of ["']?\s*\n started at k, -1 when there is none
closeEnd(s, k) ==
  wsNewlineEnd(s, IF k < Len(s) /\ s[k + 1] \in QuoteChars THEN k + 1 ELSE k)

NoMatch == [ok |-> FALSE, val |-> <<>>, end |-> -1]

\* 0-based position of the next newline at or after v, the length of s when
\* there is none: as far as .*? can reach
lineEnd(s, v) == MinOf({i \in v..(Len(s) - 1) : s[i + 1] = "\n"} \cup {Len(s)})

\* the match whose lazy capture ends at the first of the positions cands
valueMatchAt(s, v, cands) ==
  IF v > Len(s) \/ cands = {} THEN NoMatch
  ELSE [ok |-> TRUE, val |-> substring(s, v, MinOf(cands)),
        end |-> closeEnd(s, MinOf(cands))]

\* (.*?)["']?\s*\n started at v: the lazy capture stops at the first position
\* from which the rest matches; it cannot run over a newline
valueMatch(s, v) ==
  valueMatchAt(s, v, {k \in v..lineEnd(s, v) : closeEnd(s, k) # -1})

firstMatch(m1, m2) == IF m1.ok THEN m1 ELSE m2

\* ["']?(.*?)["']?\s*\n started at b: the optional opening quote is taken
\* first, and given back when the rest does not match
tailMatch(s, b) ==
  firstMatch(IF b < Len(s) /\ s[b + 1] \in QuoteChars THEN valueMatch(s, b + 1) ELSE NoMatch,
             valueMatch(s, b))

\* the item whose dash is at a, the \s* after the dash ending at the last of bs
itemMatchAt(s, a, bs) ==
  IF a >= Len(s) \/ s[a + 1] # "-" \/ bs = {} THEN NoMatch
  ELSE tailMatch(s, MaxOf(bs))

\* the ends of the \s* after a dash at a from which the rest of the item matches
itemTails(s, a) == {b \in (a + 1)..wsEnd(s, a + 1) : tailMatch(s, b).ok}

\* one list item, \s*-\s*["']?(.*?)["']?\s*\n, anchored at p
itemMatch(s, p) == itemMatchAt(s, wsEnd(s, p), itemTails(s, wsEnd(s, p)))

\* the captures of (?:item)+ from p on, as the exec loop collects them:
\* trimmed, empty captures skipped
RECURSIVE itemValues(_, _)
itemValuesFrom(s, m) ==
  IF ~m.ok THEN <<>>
  ELSE (IF Len(m.val) > 0 THEN <<trim(m.val)>> ELSE <<>>) \o itemValues(s, m.end)

itemValues(s, p) == itemValuesFrom(s, itemMatch(s, p))

\* start of group 1 of /tags:\s*\n((?:item)+)/i with `tags:` at i, -1 if no
\* match
yamlListStart(s, i) ==
  IF wsNewlineEnd(s, i + 5) # -1 /\ itemMatch(s, wsNewlineEnd(s, i + 5)).ok
  THEN wsNewlineEnd(s, i + 5)
  ELSE -1

\* the capture between an opening bracket at open and the first closing
\* bracket on the same line
bracketMatch(s, open, close) ==
  IF open < Len(s) /\ s[open + 1] = "[" /\ close # -1 /\ close <= lineEnd(s, open + 1)
  THEN [ok |-> TRUE, val |-> substring(s, open + 1, close)]
  ELSE [ok |-> FALSE, val |-> <<>>]

\* capture of /tags:\s*\[(.*?)\]/i with `tags:` at i
inlineArrayMatch(s, i) ==
  bracketMatch(s, wsEnd(s, i + 5), indexOf(s, <<"]">>, wsEnd(s, i + 5) + 1))

\* capture of /tags:\s*(.*?)(?:\n|$)/i with `tags:` at i
singleTagMatch(s, i) == substring(s, wsEnd(s, i + 5), lineEnd(s, wsEnd(s, i + 5)))

\* inlineArrayMatch[1].split(',') cleaned of quotes, trimmed, empties dropped
inlineTags(list) ==
  SelectSeq([k \in 1..Len(split(list, ",")) |->
               trim(removeChars(split(list, ",")[k], QuoteChars))],
            LAMBDA t : Len(t) > 0)

\* the single-scalar shape: the trimmed capture unless empty or `[]`
singleTags(singleTag) ==
  IF Len(singleTag) > 0 /\ singleTag # <<"[", "]">>
  THEN <<removeChars(singleTag, QuoteChars)>>
  ELSE <<>>

\* the three shapes in order; yamls and inlines are the positions of `tags:`
\* at which the first and the second expression match
extractShapes(frontmatter, keys, yamls, inlines) ==
  IF yamls # {}
  THEN itemValues(frontmatter, yamlListStart(frontmatter, MinOf(yamls)))
  ELSE IF inlines # {} /\ Len(inlineArrayMatch(frontmatter, MinOf(inlines)).val) > 0
  THEN inlineTags(inlineArrayMatch(frontmatter, MinOf(inlines)).val)
  ELSE IF keys # {} /\ Len(singleTagMatch(frontmatter, MinOf(keys))) > 0
  THEN singleTags(trim(singleTagMatch(frontmatter, MinOf(keys))))
  ELSE <<>>

extractExistingTagsAt(frontmatter, keys) ==
  extractShapes(frontmatter, keys,
                {i \in keys : yamlListStart(frontmatter, i) # -1},
                {i \in keys : inlineArrayMatch(frontmatter, i).ok})

extractExistingTags(frontmatter) ==
  extractExistingTagsAt(frontmatter, tagsKeyPositions(frontmatter))

\* ------------------------------------------------------------------------
\* Rewriting the document (manageFrontmatterTags)
\* ------------------------------------------------------------------------

Delimiter == <<"-", "-", "-", "\n">>

\* the while loop of replaceTagsSection: from the newline at tagsEndIndex,
\* consume following lines until one holds a colon or is `---`
RECURSIVE tagsSectionEnd(_, _)
tagsSectionStep(frontmatter, tagsEndIndex, nextLineStart) ==
  IF nextLineStart = -1 THEN tagsEndIndex
  ELSE IF \/ includes(substring(frontmatter, tagsEndIndex + 1, nextLineStart), <<":">>)
          \/ trim(substring(frontmatter, tagsEndIndex + 1, nextLineStart)) = <<"-", "-", "-">>
  THEN tagsEndIndex + 1
  ELSE tagsSectionEnd(frontmatter, nextLineStart)

tagsSectionEnd(frontmatter, tagsEndIndex) ==
  IF ~(tagsEndIndex < Len(frontmatter) - 1) THEN tagsEndIndex
  ELSE tagsSectionStep(frontmatter, tagsEndIndex,
                       indexOf(frontmatter, <<"\n">>, tagsEndIndex + 1))

replaceTagsSectionAt(frontmatter, formattedTagsList, tagsStartIndex) ==
  IF tagsStartIndex = -1 THEN frontmatter
  ELSE substring(frontmatter, 0, tagsStartIndex)
         \o TagsKey \o <<"\n">> \o formattedTagsList
         \o substringFrom(frontmatter,
              tagsSectionEnd(frontmatter, indexOf(frontmatter, <<"\n">>, tagsStartIndex)))

replaceTagsSection(frontmatter, formattedTagsList) ==
  replaceTagsSectionAt(frontmatter, formattedTagsList,
                       indexOf(toLowerCase(frontmatter), TagsKey, 0))

\* s.replace(new RegExp(pat, 'g'), value) for a pattern without metacharacters
RECURSIVE replaceAll(_, _, _)
replaceAllAt(s, pat, value, i) ==
  IF i = -1 THEN s
  ELSE substring(s, 0, i) \o value
         \o replaceAll(substringFrom(s, i + Len(pat)), pat, value)

replaceAll(s, pat, value) == replaceAllAt(s, pat, value, indexOf(s, pat, 0))

\* variables is a sequence of <<key, value>> in the order of Object.entries
RECURSIVE replaceTemplateVariables(_, _)
replaceTemplateVariables(template, variables) ==
  IF Len(variables) = 0 THEN template
  ELSE replaceTemplateVariables(
         replaceAll(template, <<"{", "{">> \o variables[1][1] \o <<"}", "}">>,
                    variables[1][2]),
         Tail(variables))

\* '---\ntags:\n{{tags}}\n---\n'
DefaultFrontmatter ==
  Delimiter \o TagsKey \o <<"\n", "{", "{", "t", "a", "g", "s", "}", "}", "\n">> \o Delimiter

\* { ...templateVars, tags: formattedTagsList }
allVars(templateVars, formattedTagsList) ==
  SelectSeq(templateVars, LAMBDA kv : kv[1] # <<"t", "a", "g", "s">>)
    \o << <<(<<"t", "a", "g", "s">>), formattedTagsList>> >>

\* an absent (undefined) or empty templateStr is the empty string here
createNewFrontmatter(doc, tagList, caseFormat, template, templateVars) ==
  replaceTemplateVariables(
    IF Len(template) = 0 THEN DefaultFrontmatter ELSE template,
    allVars(templateVars, formatTagsAsYamlList(tagList, caseFormat)))
    \o <<"\n", "\n">> \o doc

\* tags.map(tag => normalizeSpelling(formatTag(tag, tagCaseFormat), langPref))
normalizedTags(tagList, caseFormat, langPref) ==
  [i \in 1..Len(tagList) |-> normalizeSpelling(formatTag(tagList[i], caseFormat), langPref)]

\* existingTags.map(tag => normalizeSpelling(tag, langPref))
normalizedExisting(existingTags, langPref) ==
  [i \in 1..Len(existingTags) |-> normalizeSpelling(existingTags[i], langPref)]

\* the append branch's filter: the new tags that match no existing tag
appendNewTags(normalizedExistingTags, tagList, caseFormat, langPref) ==
  SelectSeq(tagList, LAMBDA tag :
    ~\E k \in 1..Len(normalizedExistingTags) :
       normalizeForComparison(normalizedExistingTags[k])
         = normalizeForComparison(normalizeSpelling(formatTag(tag, caseFormat), langPref)))

\* the append branch, given the normalised existing tags
appendToFrontmatter(frontmatter, normalizedExistingTags, tagList, caseFormat, langPref) ==
  replaceTagsSection(frontmatter,
    formatTagsAsYamlList(
      normalizedExistingTags
        \o normalizedTags(appendNewTags(normalizedExistingTags, tagList, caseFormat, langPref),
                          caseFormat, langPref),
      caseFormat))

\* the branches for a block that has a closing delimiter
updateFrontmatter(frontmatter, restOfContent, tagList, caseFormat, mode, langPref) ==
  IF includes(frontmatter, TagsKey)
  THEN IF mode = "append"
       THEN appendToFrontmatter(frontmatter,
              normalizedExisting(extractExistingTags(frontmatter), langPref),
              tagList, caseFormat, langPref)
              \o restOfContent
       ELSE replaceTagsSection(frontmatter,
              formatTagsAsYamlList(normalizedTags(tagList, caseFormat, langPref), caseFormat))
              \o restOfContent
  ELSE frontmatter \o TagsKey \o <<"\n">>
         \o formatTagsAsYamlList(normalizedTags(tagList, caseFormat, langPref), caseFormat)
         \o <<"\n">> \o restOfContent

\* a merge that returns a document with an unclosed block as it is
manageFrontmatterTagsSkippingUnclosed(doc, tagList, caseFormat, mode, template, templateVars, langPref, frontmatterEnd) ==
  IF startsWith(doc, Delimiter) /\ frontmatterEnd # -1
  THEN updateFrontmatter(substring(doc, 0, frontmatterEnd), substringFrom(doc, frontmatterEnd),
                         tagList, caseFormat, mode, langPref)
  ELSE IF startsWith(doc, Delimiter) THEN doc
  ELSE createNewFrontmatter(doc, normalizedTags(tagList, caseFormat, langPref),
                            caseFormat, template, templateVars)

manageFrontmatterTagsAt(doc, tagList, caseFormat, mode, template, templateVars, langPref, frontmatterEnd) ==
  IF startsWith(doc, Delimiter) /\ frontmatterEnd # -1
  THEN updateFrontmatter(substring(doc, 0, frontmatterEnd), substringFrom(doc, frontmatterEnd),
                         tagList, caseFormat, mode, langPref)
  ELSE createNewFrontmatter(doc, normalizedTags(tagList, caseFormat, langPref),
                            caseFormat, template, templateVars)

manageFrontmatterTags(doc, tagList, caseFormat, mode, template, templateVars, language) ==
  manageFrontmatterTagsAt(doc, tagList, caseFormat, mode, template, templateVars,
                          IF language = "" THEN "uk" ELSE language,
                          indexOf(doc, Delimiter, 4))

\* ------------------------------------------------------------------------
\* Inputs: documents, generated tag lists, settings
\* ------------------------------------------------------------------------

\* `title: X\n`
TitleLine == <<"t","i","t","l","e",":"," ","X","\n">>

\* `date: D\n`
DateLine == <<"d","a","t","e",":"," ","D","\n">>

\* `subtags: x\n`
SubtagsLine == <<"s","u","b","t","a","g","s",":"," ","x","\n">>

\* `body`
Body == <<"b","o","d","y">>

\* `tags:\n- cat\n- colour-theory\n`
ListField == <<"t","a","g","s",":","\n","-"," ","c","a","t","\n","-"," ","c","o","l","o","u","r","-","t","h","e","o","r","y","\n">>

\* `tags: [alpha, beta]\n`
InlineField == <<"t","a","g","s",":"," ","[","a","l","p","h","a",","," ","b","e","t","a","]","\n">>

\* `tags: cat\n`
ScalarField == <<"t","a","g","s",":"," ","c","a","t","\n">>

\* `Cat`
TagCat == <<"C","a","t">>

\* `Dog`
TagDog == <<"D","o","g">>

\* `dog`
TagDogLower == <<"d","o","g">>

\* `cat`
TagCatLower == <<"c","a","t">>

\* `Color-Theory`
TagColorTheory == <<"C","o","l","o","r","-","T","h","e","o","r","y">>

\* `Color`
TagColor == <<"C","o","l","o","r">>

\* `gamma`
TagGamma == <<"g","a","m","m","a">>

\* `"big dog"`
TagQuoted == <<"\"","b","i","g"," ","d","o","g","\"">>

\* DEFAULT_SETTINGS.defaultTemplate
DefaultTemplate ==
  <<"-","-","-","\n","t","i","t","l","e",":"," ","{","{","t","i","t","l","e","}","}","\n","d","a","t","e",":"," ","{","{","d","a","t","e","}","}","\n","t","a","g","s",":"," ","[","]","\n","-","-","-">>

\* the templateVars of createNoteContent: title and date
TemplateVars ==
  << <<<<"t","i","t","l","e">>, <<"N">>>>, <<<<"d","a","t","e">>, <<"D">>>> >>

WellFormed(pre, field, post) == Delimiter \o pre \o field \o post \o Delimiter \o Body

\* well-formed frontmatter holding a tags field in one of its three shapes,
\* as first, middle or last key
TaggedDocs ==
  {WellFormed(pre, field, post) :
     pre \in {<<>>, TitleLine},
     field \in {ListField, InlineField, ScalarField},
     post \in {<<>>, DateLine}}

\* well-formed frontmatter without a tags key
UntaggedDocs == {WellFormed(TitleLine, <<>>, <<>>), WellFormed(SubtagsLine, <<>>, <<>>)}

\* opening delimiter without a closing one
MalformedDocs == {Delimiter \o TitleLine \o Body, Delimiter \o ListField \o Body}

PlainDocs == {Body}

TagLists ==
  { <<>>,
    <<TagCat, TagDog>>,
    <<TagColorTheory>>,
    <<TagDogLower, TagDogLower>>,
    <<TagGamma>>,
    <<TagColor, TagCatLower>>,
    <<TagQuoted>> }

\* `ok`
TagOk == <<"o","k">>

\* `two-words`
TagTwoWords == <<"t","w","o","-","w","o","r","d","s">>

\* `three-word-tag`
TagThreeWordTag == <<"t","h","r","e","e","-","w","o","r","d","-","t","a","g">>

\* `a-very-long-multi-word-tag`
TagVeryLong == <<"a","-","v","e","r","y","-","l","o","n","g","-","m","u","l","t","i","-","w","o","r","d","-","t","a","g">>

\* `Big Dog`
TagBigDogSpaced == <<"B","i","g"," ","D","o","g">>

\* `snake_case_tag`
TagSnakeCase == <<"s","n","a","k","e","_","c","a","s","e","_","t","a","g">>

\* `-big-dog`
TagLeadingHyphen == <<"-","b","i","g","-","d","o","g">>

\* `dog-`
TagTrailingHyphen == <<"d","o","g","-">>

\* ``
TagEmpty == <<>>

\* `C++ tips`
TagPunctuated == <<"C","+","+"," ","t","i","p","s">>

\* `straße`
TagStrasse == <<"s","t","r","a","ß","e">>

\* `x  y`
TagWideGap == <<"x"," "," ","y">>

\* tags as a backend may answer them
SampleTags ==
  {TagOk, TagTwoWords, TagThreeWordTag, TagVeryLong, TagBigDogSpaced, TagSnakeCase, TagLeadingHyphen, TagTrailingHyphen, TagEmpty, TagPunctuated, TagStrasse, TagWideGap, TagQuoted, TagColorTheory}

\* answers of a backend: comma-separated lists, already split and trimmed
RawTagLists ==
  { <<>>,
    <<TagVeryLong, TagOk>>,
    <<TagVeryLong>>,
    <<TagOk, TagTwoWords, TagThreeWordTag>>,
    <<TagThreeWordTag, TagVeryLong>>,
    <<TagTwoWords, TagOk, TagTwoWords>>,
    <<TagLeadingHyphen, TagBigDogSpaced>>,
    <<TagSnakeCase, TagOk>>,
    <<TagCat, TagDog>>,
    <<TagGamma>> }

\* largest settings.maxWordsPerTag drawn
MaxWordsPerTag == 3

Modes == {"append", "replace"}

\* number of tagging operations applied to one document
MaxRuns == 2

\* ------------------------------------------------------------------------
\* The state machine: a document in the vault, tagged repeatedly
\* ------------------------------------------------------------------------

VARIABLES
  content,             \* the text of the document in the vault
  tags,                \* the tag list handed to manageFrontmatterTags
  tagCaseFormat,       \* settings.tagCaseFormat
  languagePreference,  \* settings.languagePreference
  templateStr,         \* the template handed to manageFrontmatterTags
  log,                 \* the merges applied so far: <<[mode, before]>>
  call,                \* the library function last called, with its arguments
  result,              \* what that call returned
  settings,            \* the plugin settings the commands read
  op,                  \* the state of each run of the command
  note,                \* the note beside the selected file, <<>> while absent
  request              \* the backend request in flight and its retries

vars == <<content, tags, tagCaseFormat, languagePreference, templateStr, log, call, result, settings, op, note, request>>

\* the runs of the command that may be in flight together
Ops == {"first", "second"}

\* DEFAULT_SETTINGS.aiPrompt
DefaultPrompt ==
  <<"G","e","n","e","r","a","t","e"," ","{","{","m","a","x","_","t","a","g","s","}","}"," ","r","e","l","e","v","a","n","t"," ","t","a","g","s"," ","f","o","r"," ","t","h","i","s"," ","t","e","x","t","."," ","E","a","c","h"," ","t","a","g"," ","M","U","S","T"," ","h","a","v","e"," ","{","{","m","a","x","_","w","o","r","d","s","}","}"," ","w","o","r","d","s"," ","o","r"," ","f","e","w","e","r","."," ","R","e","t","u","r","n"," ","O","N","L","Y"," ","a"," ","c","o","m","m","a","-","s","e","p","a","r","a","t","e","d"," ","l","i","s","t","."," ","F","o","r"," ","m","u","l","t","i","-","w","o","r","d"," ","t","a","g","s",","," ","u","s","e"," ","h","y","p","h","e","n","s"," ","t","o"," ","j","o","i","n"," ","w","o","r","d","s","."," ","E","x","a","m","p","l","e"," ","f","o","r","m","a","t",":"," ","\"","s","i","n","g","l","e","-","w","o","r","d",","," ","t","w","o","-","w","o","r","d","s",","," ","a","n","o","t","h","e","r","-","t","a","g","\"","."," ","D","o"," ","n","o","t"," ","u","s","e"," ","s","p","a","c","e","s"," ","w","i","t","h","i","n"," ","t","a","g","s",".">>

\* DEFAULT_SETTINGS, the fields the commands read
DefaultSettings ==
  [aiProvider |-> "openai", openAIApiKey |-> "", mistralAiApiKey |-> "",
   aiPrompt |-> DefaultPrompt,
   googleClientId |-> "", googleClientSecret |-> "",
   ollamaHost |-> "http://localhost:11434", ollamaModel |-> "llama2",
   maxTags |-> 5, maxWordsPerTag |-> 2]

\* a run of the command that has not started
IdleOp ==
  [pc |-> "idle", kind |-> "none", mode |-> "none", fileContent |-> <<>>,
   passes |-> 0, attempts |-> <<>>, validTags |-> <<>>, tags |-> <<>>,
   requests |-> <<>>, calls |-> 0, prompted |-> FALSE, writes |-> 0,
   outcome |-> "none"]

\* no request is made
IdleRequest ==
  [pc |-> "idle", caller |-> "none", wrapped |-> FALSE, errorPrefix |-> <<>>,
   retries |-> 0, showNotice |-> FALSE, attempt |-> 0, currentDelay |-> 0,
   responses |-> <<>>, delays |-> <<>>, notices |-> 0, message |-> <<>>]

\* the command is not run
NoCommand ==
  /\ settings = DefaultSettings
  /\ op = [i \in Ops |-> IdleOp]
  /\ note = <<>>
  /\ request = IdleRequest

\* no library function called on its own
NoCall == call = [fn |-> "none"] /\ result = <<>>

\* a document of the vault, the settings and the generated tags;
\* handleMarkdownTagGeneration hands no template to manageFrontmatterTags
Init ==
  /\ content \in TaggedDocs \cup UntaggedDocs \cup MalformedDocs \cup PlainDocs
  /\ templateStr = <<>>
  /\ tags \in TagLists
  /\ tagCaseFormat \in CaseFormats
  /\ languagePreference \in LanguagePreferences
  /\ log = <<>>
  /\ NoCall
  /\ NoCommand

\* handleMarkdownTagGeneration once the tags are generated: a non-empty list
\* is merged into the stored document and the result written back
\* (app.vault.modify); an empty list changes nothing
MergeTags(mode) ==
  /\ Len(log) < MaxRuns
  /\ Len(tags) > 0
  /\ content' = manageFrontmatterTags(content, tags, tagCaseFormat, mode,
                                      templateStr, TemplateVars, languagePreference)
  /\ log' = Append(log, [mode |-> mode, before |-> content])
  /\ UNCHANGED <<tags, tagCaseFormat, languagePreference, templateStr, call, result, settings, op, note, request>>

\* the Append button of MarkdownTagsModal
AppendTags == MergeTags("append")

\* the Replace button of MarkdownTagsModal
ReplaceTags == MergeTags("replace")

Next == AppendTags \/ ReplaceTags

Spec == Init /\ [][Next]_vars

\* ------------------------------------------------------------------------
\* manageFrontmatterTags as a function of its arguments: every tag list of
\* TagLists, the empty one included, merged into the document
\* ------------------------------------------------------------------------

\* one call of manageFrontmatterTags on the document, the result taken as
\* the document of the next call
CallMerge(mode) ==
  /\ Len(log) < MaxRuns
  /\ content' = manageFrontmatterTags(content, tags, tagCaseFormat, mode,
                                      templateStr, TemplateVars, languagePreference)
  /\ log' = Append(log, [mode |-> mode, before |-> content])
  /\ UNCHANGED <<tags, tagCaseFormat, languagePreference, templateStr, call, result, settings, op, note, request>>

\* mode = 'append'
CallAppend == CallMerge("append")

\* mode = 'replace'
CallReplace == CallMerge("replace")

NextMerge == CallAppend \/ CallReplace

SpecMerge == Init /\ [][NextMerge]_vars

\* ------------------------------------------------------------------------
\* The functions of libs/utils.ts and handlers/modals.ts called on their own
\* ------------------------------------------------------------------------

\* no document is involved
NoDocument ==
  /\ content = <<>>
  /\ tags = <<>>
  /\ tagCaseFormat = "lowercase"
  /\ languagePreference = "uk"
  /\ templateStr = <<>>
  /\ log = <<>>

InitUtils == NoDocument /\ NoCall /\ NoCommand

docVars == <<content, tags, tagCaseFormat, languagePreference, templateStr, log, settings, op, note, request>>

CallIsValidTag ==
  \E tag \in SampleTags, n \in 1..MaxWordsPerTag :
    /\ call' = [fn |-> "isValidTag", tag |-> tag, maxWordsPerTag |-> n]
    /\ result' = isValidTag(tag, n)
    /\ UNCHANGED docVars

CallFilterErroneousTags ==
  \E tagList \in RawTagLists, n \in 1..MaxWordsPerTag :
    /\ call' = [fn |-> "filterErroneousTags", tags |-> tagList, maxWordsPerTag |-> n]
    /\ result' = filterErroneousTags(tagList, n)
    /\ UNCHANGED docVars

\* the comparison key of a tag, of that key, and of the tag once formatted
CallNormalizeForComparison ==
  \E tag \in SampleTags, caseFormat \in CaseFormats :
    /\ call' = [fn |-> "normalizeForComparison", tag |-> tag, caseFormat |-> caseFormat]
    /\ result' = [key |-> normalizeForComparison(tag),
                  keyOfKey |-> normalizeForComparison(normalizeForComparison(tag)),
                  keyOfFormatted |-> normalizeForComparison(formatTag(tag, caseFormat))]
    /\ UNCHANGED docVars

\* `tags:\n- cat\n- note: x\n`: a list item whose value holds a colon
ColonItemField == <<"t","a","g","s",":","\n","-"," ","c","a","t","\n","-"," ","n","o","t","e",":"," ","x","\n">>

\* `tags:\n`: the key without a value
EmptyField == <<"t","a","g","s",":","\n">>

\* `tags:\n- "big dog"\n`
QuotedItemField == <<"t","a","g","s",":","\n","-"," ","\"","b","i","g"," ","d","o","g","\"","\n">>

\* `tags: []\n`
EmptyArrayField == <<"t","a","g","s",":"," ","[","]","\n">>

\* what manageFrontmatterTags cuts off a document as its frontmatter: the
\* opening delimiter and the lines of the block, the tags key first, in the
\* middle or last, or absent
Frontmatters ==
  {Delimiter \o pre \o field \o post :
     pre \in {<<>>, TitleLine},
     field \in {ListField, InlineField, ScalarField, ColonItemField, EmptyField,
                QuotedItemField, EmptyArrayField, <<>>},
     post \in {<<>>, DateLine}}

\* `- gamma` and `- cat\n- dog`, as formatTagsAsYamlList returns them
FormattedLists == {<<"-"," ","g","a","m","m","a">>, <<"-"," ","c","a","t","\n","-"," ","d","o","g">>}

CallReplaceTagsSection ==
  \E frontmatter \in Frontmatters, formattedTagsList \in FormattedLists :
    /\ call' = [fn |-> "replaceTagsSection", frontmatter |-> frontmatter,
                formattedTagsList |-> formattedTagsList]
    /\ result' = replaceTagsSection(frontmatter, formattedTagsList)
    /\ UNCHANGED docVars

CallExtractExistingTags ==
  \E frontmatter \in Frontmatters :
    /\ call' = [fn |-> "extractExistingTags", frontmatter |-> frontmatter]
    /\ result' = extractExistingTags(frontmatter)
    /\ UNCHANGED docVars

\* `a " b`: a quote between two blanks
TagQuoteInGap == <<"a"," ","\""," ","b">>

\* `COLOR`
TagColorUpper == <<"C","O","L","O","R">>

\* `colour`
TagColourLower == <<"c","o","l","o","u","r">>

\* `Gray`
TagGray == <<"G","r","a","y">>

\* tags with quotes, blanks, capitals and letters outside ASCII
FormatSamples ==
  {TagQuoted, TagQuoteInGap, TagBigDogSpaced, TagWideGap, TagColorTheory, TagSnakeCase,
   TagStrasse, TagPunctuated, TagEmpty, TagCatLower}

\* the case formats of the settings and a value that is none of them
CaseFormatValues == CaseFormats \cup {"camelcase"}

CallFormatTag ==
  \E tag \in FormatSamples, caseFormat \in CaseFormatValues :
    /\ call' = [fn |-> "formatTag", tag |-> tag, caseFormat |-> caseFormat]
    /\ result' = formatTag(tag, caseFormat)
    /\ UNCHANGED docVars

\* tags that are, hold, or are not a word of the spelling table
SpellingSamples ==
  {TagColor, TagColorUpper, TagColourLower, TagGray, TagColorTheory, TagCat, TagDogLower,
   TagEmpty}

\* the preferred spelling of a tag, and of that result again
CallNormalizeSpelling ==
  \E tag \in SpellingSamples, language \in LanguagePreferences :
    /\ call' = [fn |-> "normalizeSpelling", tag |-> tag, languagePreference |-> language]
    /\ result' = [once |-> normalizeSpelling(tag, language),
                  twice |-> normalizeSpelling(normalizeSpelling(tag, language), language)]
    /\ UNCHANGED docVars

\* `## N\n\n![[N.pdf]]`
BaseContent == <<"#","#"," ","N","\n","\n","!","[","[","N",".","p","d","f","]","]">>

\* a template that holds the placeholder of the tags:
\* `---\ntitle: {{title}}\ntags:\n{{tags}}\n---`
TagsTemplate == <<"-","-","-","\n","t","i","t","l","e",":"," ","{","{","t","i","t","l","e","}","}","\n","t","a","g","s",":","\n","{","{","t","a","g","s","}","}","\n","-","-","-">>

\* no template, the template of the default settings, a template with {{tags}}
Templates == {<<>>, DefaultTemplate, TagsTemplate}

\* documents without a closed frontmatter block: no block at all, an opening
\* delimiter only, the base content of a new note
UnframedDocs == {Body, Delimiter \o ListField \o Body, BaseContent}

\* non-empty tag lists for a new block
NewTagLists == {<<TagGamma>>, <<TagColor, TagCatLower>>}

\* manageFrontmatterTags on a document without a closed frontmatter block
CallManageFrontmatterTags ==
  \E doc \in UnframedDocs,
     tagList \in NewTagLists,
     caseFormat \in CaseFormats,
     mode \in Modes,
     template \in Templates :
    /\ call' = [fn |-> "manageFrontmatterTags", content |-> doc, tags |-> tagList,
                tagCaseFormat |-> caseFormat, mode |-> mode, templateStr |-> template]
    /\ result' = manageFrontmatterTags(doc, tagList, caseFormat, mode, template,
                                       TemplateVars, "")
    /\ UNCHANGED docVars

NextUtils ==
  \/ CallManageFrontmatterTags
  \/ CallFormatTag
  \/ CallNormalizeSpelling
  \/ CallIsValidTag
  \/ CallFilterErroneousTags
  \/ CallNormalizeForComparison
  \/ CallReplaceTagsSection
  \/ CallExtractExistingTags

SpecUtils == InitUtils /\ [][NextUtils]_vars

\* ------------------------------------------------------------------------
\* The command `Create note for selected file` (libs/commands.ts): tagging
\* a markdown document, or creating the note beside another file
\* ------------------------------------------------------------------------

isAIProviderConfigured(s) ==
  CASE s.aiProvider = "openai"  -> s.openAIApiKey # ""
    [] s.aiProvider = "gemini"  -> s.googleClientId # "" /\ s.googleClientSecret # ""
    [] s.aiProvider = "ollama"  -> TRUE
    [] s.aiProvider = "mistral" -> s.mistralAiApiKey # ""
    [] OTHER                    -> FALSE

\* the providers getTagsFromAI has a request for
BackedProviders == {"ollama", "openai"}

\* the prompt the user has configured:
\* `Give {{max_tags}} tags of {{max_words}} words.`
UserPrompt == <<"G","i","v","e"," ","{","{","m","a","x","_","t","a","g","s","}","}"," ","t","a","g","s"," ","o","f"," ","{","{","m","a","x","_","w","o","r","d","s","}","}"," ","w","o","r","d","s",".">>

\* settings of one provider with its credentials set or not
SettingsOf(provider, openAIApiKey, mistralAiApiKey, google, ollamaModel, maxTags) ==
  [aiProvider |-> provider, openAIApiKey |-> openAIApiKey,
   mistralAiApiKey |-> mistralAiApiKey, aiPrompt |-> UserPrompt,
   googleClientId |-> google[1], googleClientSecret |-> google[2],
   ollamaHost |-> "http://localhost:11434", ollamaModel |-> ollamaModel,
   maxTags |-> maxTags, maxWordsPerTag |-> 2]

\* largest settings.maxTags drawn
MaxTags == 2

SettingsChoices ==
  UNION {
    {SettingsOf("openai", k, "", <<"", "">>, "llama2", m) : k \in {"", "sk"}}
      \cup {SettingsOf("gemini", "", "", g, "llama2", m) :
              g \in {<<"", "">>, <<"id", "">>, <<"id", "secret">>}}
      \cup {SettingsOf("ollama", "", "", <<"", "">>, o, m) : o \in {"", "llama2"}}
      \cup {SettingsOf("mistral", "", k, <<"", "">>, "llama2", m) : k \in {"", "mk"}}
    : m \in 1..MaxTags }

\* what a backend answers, split at the commas and trimmed
Answers ==
  { <<>>,
    <<TagVeryLong>>,
    <<TagGamma>>,
    <<TagVeryLong, TagCatLower, TagDogLower, TagGamma>> }

\* what the user types into the manual prompt
ManualTagLists == { <<>>, <<TagGamma>> }

\* file.extension of the selected file
FileExtension == <<"p","d","f">>

InitCommand ==
  /\ content = WellFormed(<<>>, ScalarField, <<>>)
  /\ tags = <<>>
  /\ tagCaseFormat = "lowercase"
  /\ languagePreference = "uk"
  /\ templateStr = <<>>
  /\ log = <<>>
  /\ NoCall
  /\ settings \in SettingsChoices
  /\ op = [i \in Ops |-> IdleOp]
  /\ note = <<>>
  /\ request = IdleRequest

\* op with the fields of run i replaced by those of the record changes
Moved(i, changes) ==
  [op EXCEPT ![i] = [f \in DOMAIN op[i] |->
                       IF f \in DOMAIN changes THEN changes[f] ELSE op[i][f]]]

\* a run ends: nothing more of it is pending
Ended(i, outcome) == Moved(i, [pc |-> "done", outcome |-> outcome])

\* createNoteForFile up to its first pending call: the checks, then the
\* text extraction
StartNote(i, extraction) ==
  IF extraction = "noExtractor" THEN Ended(i, "noExtractor")
  ELSE IF note # <<>> THEN Ended(i, "noteExists")
  ELSE IF extraction = "noText" THEN Ended(i, "error")
  ELSE Moved(i, [pc |-> "generate", kind |-> "file"])

\* the command's callback: validatePrerequisites, then the dialog for a
\* markdown file or createNoteForFile for another file
RunCommand(i) ==
  /\ op[i].pc = "idle"
  /\ \E activeFile \in {"none", "md", "pdf", "txt"},
        extraction \in {"text", "noText", "noExtractor"} :
       op' = IF ~isAIProviderConfigured(settings) THEN Ended(i, "notConfigured")
             ELSE IF activeFile = "none" THEN Ended(i, "noFile")
             ELSE IF activeFile = "txt" THEN Ended(i, "unsupported")
             ELSE IF activeFile = "md" THEN Moved(i, [pc |-> "dialog", kind |-> "md"])
             ELSE StartNote(i, extraction)
  /\ UNCHANGED <<content, tags, tagCaseFormat, languagePreference, templateStr, log, call, result, settings, note, request>>

\* a button of MarkdownTagsModal: Append and Replace start
\* handleMarkdownTagGeneration, whose first call is the read of the file
PressButton(i) ==
  /\ op[i].pc = "dialog"
  /\ \E button \in {"append", "replace", "cancel"} :
       op' = IF button = "cancel" THEN Ended(i, "cancelled")
             ELSE Moved(i, [pc |-> "read", mode |-> button])
  /\ UNCHANGED <<content, tags, tagCaseFormat, languagePreference, templateStr, log, call, result, settings, note, request>>

\* app.vault.read(file) returns
ReadFile(i) ==
  /\ op[i].pc = "read"
  /\ op' = Moved(i, [pc |-> "generate", fileContent |-> content])
  /\ UNCHANGED <<content, tags, tagCaseFormat, languagePreference, templateStr, log, call, result, settings, note, request>>

sliceNothing(list, maxTags) == list

\* s.replace(pat, value) for a string pattern: the first occurrence only
replaceFirstAt(s, pat, value, i) ==
  IF i = -1 THEN s
  ELSE substring(s, 0, i) \o value \o substringFrom(s, i + Len(pat))

replaceFirst(s, pat, value) == replaceFirstAt(s, pat, value, indexOf(s, pat, 0))

\* n.toString() for a natural number
RECURSIVE toString(_)
toString(n) ==
  IF n < 10 THEN <<<<"0", "1", "2", "3", "4", "5", "6", "7", "8", "9">>[n + 1]>>
  ELSE toString(n \div 10) \o toString(n % 10)

\* finalPrompt of getTagsFromAI
finalPrompt(s) ==
  replaceFirst(replaceFirst(s.aiPrompt, <<"{","{","m","a","x","_","t","a","g","s","}","}">>, toString(s.maxTags)),
               <<"{","{","m","a","x","_","w","o","r","d","s","}","}">>, toString(s.maxWordsPerTag))

\* the request of makeOllamaAiRequest(provider, host, model, prompt, text):
\* content is `${prompt}\n\nText: ${text}`
makeOllamaAiRequest(host, model, prompt, text) ==
  [url |-> <<host, "/api/generate">>, model |-> model, authorization |-> <<>>,
   content |-> [instruction |-> prompt, text |-> text]]

\* the request of makeOpenAiRequest(provider, text, apiKey, prompt)
makeOpenAiRequest(text, apiKey, prompt) ==
  [url |-> <<"https://api.openai.com/v1/chat/completions">>, model |-> "gpt-3.5-turbo",
   authorization |-> <<"Bearer ", apiKey>>,
   content |-> [instruction |-> prompt, text |-> text]]

\* the request getTagsFromAI makes for the text: the ollama call passes
\* (host, model, finalPrompt, text), the openai call passes
\* (apiKey, finalPrompt, text) for the parameters (text, apiKey, prompt)
requestOf(s, text) ==
  IF s.aiProvider = "ollama"
  THEN makeOllamaAiRequest(s.ollamaHost, s.ollamaModel, finalPrompt(s), text)
  ELSE makeOpenAiRequest(s.openAIApiKey, finalPrompt(s), text)

\* the text extracted from the selected file
ExtractedText == <<"t","e","x","t"," ","o","f"," ","N">>

\* the text generateTags is called with by run i
textOf(i) == IF op[i].kind = "md" THEN op[i].fileContent ELSE ExtractedText

\* validTags.slice(0, maxTags)
slice(list, maxTags) == SubSeq(list, 1, IF maxTags < Len(list) THEN maxTags ELSE Len(list))

\* the requests a pass of run i sends: one when the provider has a backend
sent(i, backend) == IF backend = 1 THEN <<requestOf(settings, textOf(i))>> ELSE <<>>

PassReturnedUntilThree(i, rawTags, checked, backend) ==
  IF ~checked.hasErroneousTags \/ op[i].passes + 1 >= 3
  THEN Moved(i, [pc |-> IF op[i].kind = "md" THEN "merge" ELSE "compose",
                 passes |-> op[i].passes + 1,
                 attempts |-> Append(op[i].attempts, rawTags),
                 calls |-> op[i].calls + backend,
                 requests |-> op[i].requests \o sent(i, backend),
                 validTags |-> checked.validTags,
                 tags |-> slice(checked.validTags, settings.maxTags)])
  ELSE Moved(i, [passes |-> op[i].passes + 1,
                 attempts |-> Append(op[i].attempts, rawTags),
                 calls |-> op[i].calls + backend,
                 requests |-> op[i].requests \o sent(i, backend),
                 validTags |-> checked.validTags])

\* a pass of the loop whose getTagsFromAI returned rawTags, checked is the
\* answer of filterErroneousTags; backend tells whether a request was made
PassReturned(i, rawTags, checked, backend) ==
  IF ~checked.hasErroneousTags \/ op[i].passes + 1 >= 2
  THEN Moved(i, [pc |-> IF op[i].kind = "md" THEN "merge" ELSE "compose",
                 passes |-> op[i].passes + 1,
                 attempts |-> Append(op[i].attempts, rawTags),
                 calls |-> op[i].calls + backend,
                 requests |-> op[i].requests \o sent(i, backend),
                 validTags |-> checked.validTags,
                 tags |-> slice(checked.validTags, settings.maxTags)])
  ELSE Moved(i, [passes |-> op[i].passes + 1,
                 attempts |-> Append(op[i].attempts, rawTags),
                 calls |-> op[i].calls + backend,
                 requests |-> op[i].requests \o sent(i, backend),
                 validTags |-> checked.validTags])

\* a pass whose request raised: handleMarkdownTagGeneration reports it,
\* createNoteContent opens the manual prompt
PassRaised(i) ==
  IF op[i].kind = "md"
  THEN Moved(i, [pc |-> "done", outcome |-> "error", calls |-> op[i].calls + 1,
                 requests |-> op[i].requests \o sent(i, 1)])
  ELSE Moved(i, [pc |-> "prompt", prompted |-> TRUE, calls |-> op[i].calls + 1,
                 requests |-> op[i].requests \o sent(i, 1)])

\* one pass of the loop of generateTags
AttemptGeneration(i) ==
  /\ op[i].pc = "generate"
  /\ \/ /\ settings.aiProvider \in BackedProviders
        /\ \E rawTags \in Answers :
             op' = PassReturned(i, rawTags,
                                filterErroneousTags(rawTags, settings.maxWordsPerTag), 1)
     \/ /\ settings.aiProvider \in BackedProviders
        /\ op' = PassRaised(i)
     \/ /\ settings.aiProvider \notin BackedProviders
        /\ op' = PassReturned(i, <<>>, filterErroneousTags(<<>>, settings.maxWordsPerTag), 0)
  /\ UNCHANGED <<content, tags, tagCaseFormat, languagePreference, templateStr, log, call, result, settings, note, request>>

WriteTagsUnguarded(i) ==
  /\ op[i].pc = "merge"
  /\ content' = manageFrontmatterTags(op[i].fileContent, op[i].tags, tagCaseFormat,
                                      op[i].mode, <<>>, <<>>, languagePreference)
  /\ log' = Append(log, [mode |-> op[i].mode, before |-> content])
  /\ op' = Moved(i, [pc |-> "done", outcome |-> "written", writes |-> op[i].writes + 1])
  /\ UNCHANGED <<tags, tagCaseFormat, languagePreference, templateStr, call, result, settings, note, request>>

\* handleMarkdownTagGeneration after generateTags returned: a non-empty
\* list is merged into the content read and written with app.vault.modify
WriteTags(i) ==
  /\ op[i].pc = "merge"
  /\ IF Len(op[i].tags) > 0
     THEN /\ content' = manageFrontmatterTags(op[i].fileContent, op[i].tags, tagCaseFormat,
                                              op[i].mode, <<>>, <<>>, languagePreference)
          /\ log' = Append(log, [mode |-> op[i].mode, before |-> content])
          /\ op' = Moved(i, [pc |-> "done", outcome |-> "written",
                             writes |-> op[i].writes + 1])
     ELSE /\ op' = Ended(i, "noTags")
          /\ UNCHANGED <<content, log>>
  /\ UNCHANGED <<tags, tagCaseFormat, languagePreference, templateStr, call, result, settings, note, request>>

\* the manual prompt: Submit resolves, Cancel rejects, closing the dialog
\* does neither (onClose only empties the dialog)
AnswerPrompt(i) ==
  /\ op[i].pc = "prompt"
  /\ \/ \E tagList \in ManualTagLists :
          op' = Moved(i, [pc |-> "compose", tags |-> tagList])
     \/ op' = Ended(i, "cancelled")
     \/ op' = Moved(i, [pc |-> "promptClosed"])
  /\ UNCHANGED <<content, tags, tagCaseFormat, languagePreference, templateStr, log, call, result, settings, note, request>>

\* createNoteContent from tags.push(file.extension) on, then
\* app.vault.create, which raises when the note exists
CreateNote(i) ==
  /\ op[i].pc = "compose"
  /\ IF note = <<>>
     THEN /\ note' = manageFrontmatterTags(BaseContent, Append(op[i].tags, FileExtension),
                                           tagCaseFormat, "replace", DefaultTemplate,
                                           TemplateVars, "")
          /\ op' = Moved(i, [pc |-> "done", outcome |-> "created",
                             writes |-> op[i].writes + 1])
     ELSE /\ op' = Ended(i, "error")
          /\ UNCHANGED note
  /\ UNCHANGED <<content, tags, tagCaseFormat, languagePreference, templateStr, log, call, result, settings, request>>

NextCommand ==
  \E i \in Ops :
    \/ RunCommand(i)
    \/ PressButton(i)
    \/ ReadFile(i)
    \/ AttemptGeneration(i)
    \/ WriteTags(i)
    \/ AnswerPrompt(i)
    \/ CreateNote(i)

SpecCommand == InitCommand /\ [][NextCommand]_vars

\* ------------------------------------------------------------------------
\* One backend request: makeApiRequest and retryWithDelay
\* ------------------------------------------------------------------------

\* what requestUrl does with a request: it resolves with a response, or
\* raises `Request failed, status N` for a status of 400 or more; message is
\* the raised message or the error.message of the response body, if any
Resolved(status, message) == [thrown |-> FALSE, status |-> status, message |-> message]

Thrown(status) ==
  [thrown |-> TRUE, status |-> status,
   message |-> <<"R","e","q","u","e","s","t"," ","f","a","i","l","e","d",","," ","s","t","a","t","u","s"," ">> \o toString(status)]

Responses ==
  { Resolved(200, <<>>),
    Thrown(429),
    Thrown(401),
    Resolved(429, <<"R","a","t","e"," ","l","i","m","i","t"," ","r","e","a","c","h","e","d">>),
    Resolved(429, <<>>),
    Resolved(500, <<>>) }

\* the message of the error makeApiRequest ends with, before its catch
requestError(response, errorPrefix) ==
  IF response.thrown THEN response.message
  ELSE IF response.message # <<>> THEN response.message
  ELSE errorPrefix \o <<" ","e","r","r","o","r"," ","(">> \o toString(response.status) \o <<")">>

\* makeApiRequest: the response when its status is 200, else an error whose
\* message is rewritten when it holds `429`
makeApiRequest(response, errorPrefix) ==
  IF ~response.thrown /\ response.status = 200 THEN [ok |-> TRUE, message |-> <<>>]
  ELSE IF includes(requestError(response, errorPrefix), <<"4", "2", "9">>)
  THEN [ok |-> FALSE, message |-> errorPrefix \o <<" ","r","a","t","e"," ","l","i","m","i","t"," ","e","x","c","e","e","d","e","d","."," ","P","l","e","a","s","e"," ","t","r","y"," ","a","g","a","i","n"," ","l","a","t","e","r",".">>]
  ELSE [ok |-> FALSE, message |-> requestError(response, errorPrefix)]

\* a function that hands on what requestUrl does, with no handling of its own
plainRequest(response) ==
  IF response.thrown THEN [ok |-> FALSE, message |-> response.message]
  ELSE [ok |-> TRUE, message |-> <<>>]

\* retryWithDelay(makeRequest, 2, 5000) of makeOpenAiRequest
OpenAiRetries == 2

OpenAiInitialDelay == 5000

\* largest number of retries retryWithDelay is called with on its own
MaxRetries == 2

InitialDelays == {OpenAiInitialDelay, 1000}

InitRequest ==
  /\ NoDocument
  /\ NoCall
  /\ settings = DefaultSettings
  /\ op = [i \in Ops |-> IdleOp]
  /\ note = <<>>
  /\ request = IdleRequest

otherVars == <<content, tags, tagCaseFormat, languagePreference, templateStr, log, call, result, settings, op, note>>

\* the first pass of the loop of retryWithDelay, up to the call of fn
Started(caller, wrapped, errorPrefix, retries, initialDelay, showNotice) ==
  [IdleRequest EXCEPT !.pc = "calling", !.caller = caller, !.wrapped = wrapped,
                      !.errorPrefix = errorPrefix, !.retries = retries,
                      !.showNotice = showNotice, !.currentDelay = initialDelay]

\* makeOpenAiRequest: retryWithDelay(makeRequest, 2, 5000)
StartOpenAiRequest ==
  /\ request.pc = "idle"
  /\ request' = Started("makeOpenAiRequest", TRUE, <<"o","p","e","n","a","i">>,
                        OpenAiRetries, OpenAiInitialDelay, TRUE)
  /\ UNCHANGED otherVars

\* makeOllamaAiRequest: makeApiRequest called once, without retryWithDelay
StartOllamaRequest ==
  /\ request.pc = "idle"
  /\ request' = Started("makeOllamaAiRequest", TRUE, <<"o","l","l","a","m","a">>,
                        0, 0, FALSE)
  /\ UNCHANGED otherVars

\* retryWithDelay called on its own with a function that does not rewrite
\* the error
StartRetryWithDelay ==
  /\ request.pc = "idle"
  /\ \E retries \in 0..MaxRetries, initialDelay \in InitialDelays, showNotice \in BOOLEAN :
       request' = Started("retryWithDelay", FALSE, <<>>, retries, initialDelay, showNotice)
  /\ UNCHANGED otherVars

\* the catch of retryWithDelay for an error with this message
Caught(responses, message) ==
  IF ~includes(message, <<"4", "2", "9">>) \/ request.attempt = request.retries
  THEN [request EXCEPT !.pc = "raised", !.responses = responses, !.message = message]
  ELSE [request EXCEPT !.pc = "waiting", !.responses = responses,
                       !.attempt = request.attempt + 1]

\* fn() settles: its value is returned, or its error goes to the catch
Settled(responses, outcome) ==
  IF outcome.ok THEN [request EXCEPT !.pc = "returned", !.responses = responses]
  ELSE Caught(responses, outcome.message)

\* the backend answers the request in flight
FnSettles ==
  /\ request.pc = "calling"
  /\ \E response \in Responses :
       request' = Settled(Append(request.responses, response),
                          IF request.wrapped
                          THEN makeApiRequest(response, request.errorPrefix)
                          ELSE plainRequest(response))
  /\ UNCHANGED otherVars

\* the head of a later pass: delay(currentDelay), the Notice, the doubling
DelayElapses ==
  /\ request.pc = "waiting"
  /\ request' = [request EXCEPT !.pc = "calling",
                                !.delays = Append(request.delays, request.currentDelay),
                                !.notices = request.notices + IF request.showNotice THEN 1 ELSE 0,
                                !.currentDelay = request.currentDelay * 2]
  /\ UNCHANGED otherVars

NextRequest ==
  \/ StartOpenAiRequest
  \/ StartOllamaRequest
  \/ StartRetryWithDelay
  \/ FnSettles
  \/ DelayElapses

SpecRequest == InitRequest /\ [][NextRequest]_vars

\* ------------------------------------------------------------------------
\* Reading a document back (the terms the properties are stated in)
\* ------------------------------------------------------------------------

\* the document has an opening and a closing delimiter
hasFrontmatterBlock(doc) == startsWith(doc, Delimiter) /\ indexOf(doc, Delimiter, 4) # -1

\* the block up to, not including, the closing delimiter
frontmatterOf(doc) == substring(doc, 0, indexOf(doc, Delimiter, 4))

\* the closing delimiter and the body
restOf(doc) == substringFrom(doc, indexOf(doc, Delimiter, 4))

blockLines(doc) == split(frontmatterOf(doc), "\n")

\* the block has a key named tags
hasTagsKey(doc) ==
  \E k \in 1..Len(blockLines(doc)) : startsWith(blockLines(doc)[k], TagsKey)

\* the lines of the block that belong to other keys: not the tags key, not
\* a list item, not blank
otherLines(doc) ==
  SelectSeq(blockLines(doc),
            LAMBDA line : /\ Len(line) > 0
                          /\ ~startsWith(line, TagsKey)
                          /\ ~startsWith(line, <<"-", " ">>))

fieldTags(doc) == extractExistingTags(frontmatterOf(doc))

keysOf(list) == [i \in 1..Len(list) |-> normalizeForComparison(list[i])]

\* comparison keys after spelling normalisation (the key of spec section 3)
spelledKeysOf(list) ==
  [i \in 1..Len(list) |->
     normalizeForComparison(normalizeSpelling(list[i], languagePreference))]

Range(f) == {f[i] : i \in DOMAIN f}

Ran == Len(log) > 0

Last == log[Len(log)]

\* the last merge rewrote the tags field of a well-formed block
RewroteField(mode) ==
  /\ Ran
  /\ Last.mode = mode
  /\ hasFrontmatterBlock(Last.before)
  /\ hasTagsKey(Last.before)

\* ------------------------------------------------------------------------
\* Properties
\* ------------------------------------------------------------------------

\* C1: after a replace on a well-formed block that has a tags field, the
\* field holds exactly the new tags, each through preferredSpelling then
\* formatTag, in the given order, and no earlier tag.
C1_ReplaceHoldsExactlyNewTags ==
  RewroteField("replace") =>
    fieldTags(content) =
      [i \in 1..Len(tags) |->
         formatTag(normalizeSpelling(tags[i], languagePreference), tagCaseFormat)]

\* C2: a merge in either mode on a well-formed block leaves the lines of the
\* other keys and everything from the closing delimiter on unchanged,
\* wherever the tags key sits.
C2_OtherLinesAndBodyUnchanged ==
  (Ran /\ hasFrontmatterBlock(Last.before)) =>
    /\ hasFrontmatterBlock(content)
    /\ otherLines(content) = otherLines(Last.before)
    /\ restOf(content) = restOf(Last.before)

\* size, membership and distinctness of the written list R against the
\* existing list E and the new tags N
monotonicDeduplicating(E, N, R) ==
  /\ Len(R) <= Len(E) + Len(N)
  /\ Range(spelledKeysOf(R)) \subseteq Range(spelledKeysOf(E)) \cup Range(spelledKeysOf(N))
  /\ \A i, j \in 1..Len(R) : i # j => keysOf(R)[i] # keysOf(R)[j]

\* C3: after an append, the tag list E' written satisfies
\* size(E') <= size(E) + size(N), every key of E' is a key of E or N, and no
\* two tags of E' share a key - also when N repeats a tag.
C3_AppendMonotonicDeduplicating ==
  RewroteField("append") =>
    monotonicDeduplicating(fieldTags(Last.before), tags, fieldTags(content))

\* the existing tags E, then the tags of N whose key E does not hold
existingThenAccepted(E, N) ==
  E \o SelectSeq(N, LAMBDA t : normalizeForComparison(t) \notin Range(keysOf(E)))

\* C4: after an append, the field lists the existing tags first, in their
\* order, spelling-normalised, then the accepted new tags in generation order.
C4_AppendKeepsExistingFirst ==
  RewroteField("append") =>
    keysOf(fieldTags(content)) =
      keysOf(existingThenAccepted(
               normalizedExisting(fieldTags(Last.before), languagePreference),
               normalizedTags(tags, tagCaseFormat, languagePreference)))

\* C5: appending Color-Theory, language preference uk, to a field holding
\* cat and colour-theory adds nothing: the field keeps exactly the two tags.
C5_OtherRegionalSpellingNotAdded ==
  (/\ RewroteField("append")
   /\ Last.before = WellFormed(<<>>, ListField, <<>>)
   /\ tags = <<TagColorTheory>>
   /\ languagePreference = "uk") =>
    keysOf(fieldTags(content)) = keysOf(fieldTags(Last.before))

\* the last merge met an opening delimiter without a closing one
UnclosedBefore ==
  /\ Ran
  /\ startsWith(Last.before, Delimiter)
  /\ indexOf(Last.before, Delimiter, 4) = -1

\* doc ends with the text tail, and a block closes before that tail starts
freshBlockThen(doc, tail) ==
  /\ Len(doc) > Len(tail)
  /\ substringFrom(doc, Len(doc) - Len(tail)) = tail
  /\ hasFrontmatterBlock(doc)
  /\ indexOf(doc, Delimiter, 4) + Len(Delimiter) <= Len(doc) - Len(tail)

\* C6: a document that opens with `---` and never closes it is treated as
\* having no frontmatter: the result is a fresh block holding the new tags,
\* then the whole original content, stray opening line included.
C6_UnclosedBlockGetsFreshBlock ==
  UnclosedBefore =>
    /\ freshBlockThen(content, Last.before)
    /\ keysOf(fieldTags(content)) = keysOf(normalizedTags(tags, tagCaseFormat, languagePreference))

\* `---\ntags:\n- gamma\n---\n\n\n---\ntitle: X\nbody`
C6_Witness ==
  /\ UnclosedBefore
  /\ Last.before = Delimiter \o TitleLine \o Body
  /\ tags = <<TagGamma>>
  /\ content = Delimiter \o TagsKey \o <<"\n", "-", " ">> \o TagGamma \o <<"\n">>
                 \o Delimiter \o <<"\n", "\n">> \o Delimiter \o TitleLine \o Body

\* the last merge met a well-formed block without a key named tags
NoTagsKeyBefore ==
  /\ Ran
  /\ hasFrontmatterBlock(Last.before)
  /\ ~hasTagsKey(Last.before)

\* C7: on a well-formed block with no key named tags - also when `tags:`
\* occurs only inside another key's name or value - the merge inserts a
\* `tags:` list of every new tag right before the closing delimiter and
\* changes nothing else.
C7_InsertsFieldBeforeClosingDelimiter ==
  NoTagsKeyBefore =>
    content = frontmatterOf(Last.before) \o TagsKey \o <<"\n">>
                \o formatTagsAsYamlList(normalizedTags(tags, tagCaseFormat, languagePreference),
                                        tagCaseFormat)
                \o <<"\n">> \o restOf(Last.before)

\* the lines that follow the first `tags:` line of the block, up to the
\* first one that is not a list item
RECURSIVE itemLines(_)
itemLines(lines) ==
  IF Len(lines) = 0 \/ ~startsWith(lines[1], <<"-", " ">>) THEN <<>>
  ELSE <<lines[1]>> \o itemLines(Tail(lines))

RECURSIVE fieldLines(_)
fieldLines(lines) ==
  IF Len(lines) = 0 THEN <<>>
  ELSE IF lines[1] = TagsKey THEN itemLines(Tail(lines))
  ELSE IF startsWith(lines[1], TagsKey) THEN <<lines[1]>>
  ELSE fieldLines(Tail(lines))

\* one `- value` line per tag of list
canonicalLines(list) == [i \in 1..Len(list) |-> <<"-", " ">> \o list[i]]

\* the tags a merge in the given mode writes over the field of doc
writtenTags(doc, mode) ==
  IF mode = "append"
  THEN existingThenAccepted(normalizedExisting(fieldTags(doc), languagePreference),
                            normalizedTags(tags, tagCaseFormat, languagePreference))
  ELSE normalizedTags(tags, tagCaseFormat, languagePreference)

\* C8: whatever shape the tags field had, a rewrite leaves a bare `tags:`
\* line followed by one `- value` line per tag written, and no inline array.
C8_RewriteEmitsCanonicalList ==
  (RewroteField("append") \/ RewroteField("replace")) =>
    fieldLines(blockLines(content)) =
      canonicalLines([i \in 1..Len(writtenTags(Last.before, Last.mode)) |->
                        formatTag(writtenTags(Last.before, Last.mode)[i], tagCaseFormat)])

\* the last two merges were replaces
ReplacedTwice ==
  /\ Len(log) >= 2
  /\ log[Len(log)].mode = "replace"
  /\ log[Len(log) - 1].mode = "replace"

\* C9: a replace applied to the output of a replace, same tags and settings,
\* yields the same field content and the same document.
C9_ReplaceIsIdempotent ==
  ReplacedTwice =>
    /\ fieldTags(content) = fieldTags(Last.before)
    /\ content = Last.before

\* the last merge wrote a tags field into a document that had no `tags:`
CreatedField ==
  /\ Ran
  /\ \/ ~hasFrontmatterBlock(Last.before)
     \/ ~includes(frontmatterOf(Last.before), TagsKey)

MergedNothing == Ran /\ tags = <<>>

FilterCalled == call.fn = "filterErroneousTags"

\* kept is a subsequence of list: its elements, in their order
isSubsequence(kept, list) ==
  \E at \in [1..Len(kept) -> 1..Len(list)] :
    /\ \A i \in 1..Len(kept) : list[at[i]] = kept[i]
    /\ \A i, j \in 1..Len(kept) : i < j => at[i] < at[j]

WordSeparators == SpaceChars \cup {"-", "_"}

\* the number of non-empty pieces between separators
wordPieces(tag) ==
  Cardinality({i \in 1..Len(tag) :
                 /\ tag[i] \notin WordSeparators
                 /\ (i = 1 \/ tag[i - 1] \in WordSeparators)})

\* C13: isValidTag is true exactly when the number of words - the non-empty
\* pieces between whitespace, hyphens and underscores - is at most
\* maxWordsPerTag, two words being accepted when maxWordsPerTag is 1.
C13_ValidExactlyWithinWordLimit ==
  call.fn = "isValidTag" =>
    result = (wordPieces(call.tag) <= IF call.maxWordsPerTag = 1 THEN 2 ELSE call.maxWordsPerTag)

\* C19: the comparison key is idempotent and does not depend on the case
\* format: key(key(t)) = key(t) and key(formatTag(t, f)) = key(t).
C19_KeyIdempotentAndCaseBlind ==
  call.fn = "normalizeForComparison" =>
    /\ result.keyOfKey = result.key
    /\ result.keyOfFormatted = result.key

\* the tags of a backend answer that isValidTag accepts, in backend order
validOf(rawTags) == SelectSeq(rawTags, LAMBDA t : isValidTag(t, settings.maxWordsPerTag))

\* C14: generateTags calls the backend at most twice; every attempt before
\* the last produced no valid tag (hasErroneousTags = true), so no call
\* follows an attempt that kept a tag; and a second attempt that returns
\* makes generateTags return, with the valid tags of that attempt
C14_RetryLoopBounded ==
  /\ [](\A i \in Ops :
       /\ op[i].calls <= 2
       /\ op[i].passes <= 2
       /\ Len(op[i].attempts) = op[i].passes
       /\ \A k \in 1..(Len(op[i].attempts) - 1) : validOf(op[i].attempts[k]) = <<>>
       /\ op[i].pc = "generate" =>
            \A k \in 1..Len(op[i].attempts) : validOf(op[i].attempts[k]) = <<>>)
  /\ [][\A i \in Ops :
          op[i].pc = "generate" /\ op[i].passes = 1 /\ op'[i].passes = 2 =>
            /\ op'[i].pc \in {"merge", "compose"}
            /\ op'[i].validTags = validOf(op'[i].attempts[2])]_vars

C14_Witness ==
  \E i \in Ops :
    /\ op[i].calls = 2
    /\ op[i].passes = 2
    /\ op[i].pc \in {"merge", "compose"}
    /\ op[i].validTags = <<>>

\* generateTags has just returned to its caller
Generated(i) == op[i].pc \in {"merge", "compose"} /\ ~op[i].prompted

\* C15: the list generateTags returns has at most settings.maxTags tags and
\* is the prefix, in backend order, of the valid tags of the last attempt
C15_ReturnsPrefixOfValidTags ==
  \A i \in Ops :
    Generated(i) =>
      /\ Len(op[i].tags) <= settings.maxTags
      /\ Len(op[i].tags) <= Len(validOf(op[i].attempts[op[i].passes]))
      /\ op[i].tags = SubSeq(validOf(op[i].attempts[op[i].passes]), 1, Len(op[i].tags))
      /\ Len(op[i].tags) = settings.maxTags
           \/ Len(op[i].tags) = Len(validOf(op[i].attempts[op[i].passes]))

C15_Witness ==
  \E i \in Ops :
    /\ Generated(i)
    /\ Len(op[i].tags) = settings.maxTags
    /\ Len(validOf(op[i].attempts[op[i].passes])) > settings.maxTags

\* C16: a run on a markdown document writes at most once, a run whose
\* generation raised or gave no tags has not written, and the stored
\* document changes only in the write of a run whose generation returned a
\* non-empty list
C16_WritesOnceAfterTags ==
  /\ [](\A i \in Ops :
       op[i].kind = "md" =>
         /\ op[i].writes <= 1
         /\ op[i].outcome \in {"error", "noTags", "cancelled"} => op[i].writes = 0
         /\ op[i].writes = 1 => Len(op[i].tags) > 0 /\ op[i].passes >= 1)
  /\ [][content' # content =>
          \E i \in Ops :
            /\ op[i].kind = "md"
            /\ op[i].pc = "merge"
            /\ Len(op[i].tags) > 0
            /\ op[i].writes = 0
            /\ op'[i].writes = 1]_vars

C16_Witness ==
  /\ \E i \in Ops : op[i].kind = "md" /\ op[i].outcome = "written" /\ content # op[i].fileContent
  /\ \E i \in Ops : op[i].kind = "md" /\ op[i].outcome = "error"

\* run i has read the document and has not yet written it or given up
InFlight(i) == op[i].kind = "md" /\ op[i].pc \in {"generate", "merge"}

\* C17: no two runs on the document are both between their read of it and
\* their write of it
C17_OneRunBetweenReadAndWrite ==
  \A i, j \in Ops : InFlight(i) /\ InFlight(j) => i = j

\* the steps of run i
Step(i) ==
  \/ RunCommand(i)
  \/ PressButton(i)
  \/ ReadFile(i)
  \/ AttemptGeneration(i)
  \/ WriteTags(i)
  \/ AnswerPrompt(i)
  \/ CreateNote(i)

\* the manual prompt of run i was dismissed, by Cancel or by closing it
Dismissed(i) ==
  \/ op[i].pc = "promptClosed"
  \/ op[i].prompted /\ op[i].pc = "done" /\ op[i].outcome = "cancelled"

\* C18: a run whose manual prompt was dismissed has ended or can still
\* take a step towards its end, has created or written nothing, and made
\* no backend call after the one that raised
C18_DismissedPromptEndsRun ==
  \A i \in Ops :
    Dismissed(i) =>
      /\ op[i].pc = "done" \/ ENABLED Step(i)
      /\ op[i].writes = 0
      /\ op[i].calls = op[i].passes + 1

\* the selected provider lacks a credential or a setting its request needs
lacksRequiredSetting(s) ==
  \/ s.aiProvider = "openai" /\ s.openAIApiKey = ""
  \/ s.aiProvider = "gemini" /\ (s.googleClientId = "" \/ s.googleClientSecret = "")
  \/ s.aiProvider = "mistral" /\ s.mistralAiApiKey = ""
  \/ s.aiProvider = "ollama" /\ (s.ollamaHost = "" \/ s.ollamaModel = "")

\* C20: with a provider that lacks a required credential or setting no
\* run makes a backend call, asks for tags, or creates or modifies a
\* document
C20_MisconfiguredProviderAborts ==
  lacksRequiredSetting(settings) =>
    /\ \A i \in Ops :
         /\ op[i].calls = 0
         /\ ~op[i].prompted
         /\ op[i].writes = 0
    /\ log = <<>>
    /\ note = <<>>

\* the lines of a frontmatter, the last one empty when it ends with a newline
linesOf(frontmatter) == split(frontmatter, "\n")

\* the index of the line of the tags key, 0 when no line starts with `tags:`
tagsLine(lines) ==
  IF \E k \in 1..Len(lines) : startsWith(lines[k], TagsKey)
  THEN MinOf({k \in 1..Len(lines) : startsWith(lines[k], TagsKey)})
  ELSE 0

\* a list-continuation line: `- item`
isItemLine(line) == startsWith(trim(line), <<"-">>) /\ trim(line) # <<"-", "-", "-">>

\* the index of the first line after line t that is not a list continuation
fieldEnd(lines, t) ==
  MinOf({k \in (t + 1)..Len(lines) : ~isItemLine(lines[k])} \cup {Len(lines) + 1})

\* the frontmatter with the lines t..(e - 1) replaced by `tags:` and the list
withField(lines, t, e, formattedTagsList) ==
  join(SubSeq(lines, 1, t - 1) \o <<TagsKey>> \o split(formattedTagsList, "\n")
         \o SubSeq(lines, e, Len(lines)), <<"\n">>)

\* C21: replaceTagsSection replaces the `tags:` line and every list item
\* line after it, items holding a colon included, by `tags:` and the new
\* list; every other line stays a line of its own, in place
C21_ReplacesKeyLineAndItems ==
  call.fn = "replaceTagsSection" /\ tagsLine(linesOf(call.frontmatter)) # 0 =>
    result = withField(linesOf(call.frontmatter), tagsLine(linesOf(call.frontmatter)),
                       fieldEnd(linesOf(call.frontmatter), tagsLine(linesOf(call.frontmatter))),
                       call.formattedTagsList)

\* the value of a list item line: after the dash, trimmed, without quotes
itemValue(line) == trim(removeChars(substringFrom(trim(line), 1), QuoteChars))

\* the text after `tags:` on the line of the key
keyValue(line) == trim(substringFrom(line, 5))

isInlineArray(value) == Len(value) >= 2 /\ value[1] = "[" /\ value[Len(value)] = "]"

\* the tags of the field by its shape: the items of a list, the entries of
\* an inline array, a single scalar; none when the key has no value
shapeTags(lines, t) ==
  IF t = 0 THEN <<>>
  ELSE IF keyValue(lines[t]) = <<>>
  THEN SelectSeq([k \in 1..(fieldEnd(lines, t) - t - 1) |-> itemValue(lines[t + k])],
                 LAMBDA v : Len(v) > 0)
  ELSE IF isInlineArray(keyValue(lines[t]))
  THEN SelectSeq([k \in 1..Len(split(substring(keyValue(lines[t]), 1, Len(keyValue(lines[t])) - 1), ",")) |->
                    trim(removeChars(split(substring(keyValue(lines[t]), 1, Len(keyValue(lines[t])) - 1), ",")[k], QuoteChars))],
                 LAMBDA v : Len(v) > 0)
  ELSE <<removeChars(keyValue(lines[t]), QuoteChars)>>

\* C22: extractExistingTags returns the values of the first shape the field
\* has - list, inline array, scalar - and the empty list when the block has
\* no tags key or the key has no value, whatever follows it
C22_FirstMatchingShapeOrEmpty ==
  call.fn = "extractExistingTags" =>
    result = shapeTags(linesOf(call.frontmatter), tagsLine(linesOf(call.frontmatter)))

\* the configured prompt with the two limits in place of the placeholders
promptWithLimits(maxTags, maxWordsPerTag) ==
  <<"G","i","v","e"," ">> \o toString(maxTags) \o <<" ","t","a","g","s"," ","o","f"," ">>
    \o toString(maxWordsPerTag) \o <<" ","w","o","r","d","s",".">>

\* C23: the first request of a run carries the configured prompt with both
\* placeholders substituted, and every later request carries a different
\* prompt that states the same two limits
C23_RetrySendsStricterPrompt ==
  \A i \in Ops :
    \A k \in 1..Len(op[i].requests) :
      IF k = 1
      THEN op[i].requests[k].content.instruction
             = promptWithLimits(settings.maxTags, settings.maxWordsPerTag)
      ELSE /\ op[i].requests[k].content.instruction # op[i].requests[1].content.instruction
           /\ includes(op[i].requests[k].content.instruction, toString(settings.maxTags))
           /\ includes(op[i].requests[k].content.instruction, toString(settings.maxWordsPerTag))

\* the backend refused the request because of the rate limit
rateLimited(response) == response.status = 429

\* a request of makeOpenAiRequest or makeOllamaAiRequest has ended in an error
BackendRequestFailed ==
  request.caller \in {"makeOpenAiRequest", "makeOllamaAiRequest"} /\ request.pc = "raised"

\* C24: a backend request whose last failure was a rate limit is given up
\* only after 2 further requests, made 5000 ms and 10000 ms after the
\* failures before them; a request that failed otherwise is given up at
\* once, and every request before a retry was rate limited
C24_RateLimitRetriedWithBackoff ==
  BackendRequestFailed =>
    /\ rateLimited(request.responses[Len(request.responses)]) =>
         /\ Len(request.responses) = 3
         /\ request.delays = <<5000, 10000>>
    /\ \A k \in 1..(Len(request.responses) - 1) : rateLimited(request.responses[k])
    /\ Len(request.delays) = Len(request.responses) - 1

\* the tag without its double quotes and with one hyphen for each run of
\* whitespace that is left, read from left to right
RECURSIVE hyphenated(_, _)
hyphenated(tag, inGap) ==
  IF tag = <<>> THEN <<>>
  ELSE IF Head(tag) = "\"" THEN hyphenated(Tail(tag), inGap)
  ELSE IF Head(tag) \in SpaceChars
  THEN (IF inGap THEN <<>> ELSE <<"-">>) \o hyphenated(Tail(tag), TRUE)
  ELSE <<Head(tag)>> \o hyphenated(Tail(tag), FALSE)

\* the letters of s in the case the format asks for, letter by letter
RECURSIVE cased(_, _, _)
cased(s, caseFormat, atWordStart) ==
  IF s = <<>> THEN <<>>
  ELSE (CASE caseFormat = "retain" -> <<Head(s)>>
          [] caseFormat = "uppercase" -> upperOf(Head(s))
          [] caseFormat = "titlecase" /\ atWordStart -> upperOf(Head(s))
          [] OTHER -> <<toLowerChar(Head(s))>>)
         \o cased(Tail(s), caseFormat, Head(s) = "-")

\* C25: formatTag removes the double quotes, puts one hyphen for each run
\* of whitespace, and applies the case format, lowercase for an unknown
\* one; nothing else changes
C25_FormatTagCleansThenCases ==
  call.fn = "formatTag" =>
    result = cased(hyphenated(call.tag, FALSE), call.caseFormat, TRUE)

\* formatTag(`a " b`, titlecase) is `A-B`: the quote goes first, the two
\* blanks it leaves are one run
C25_Witness ==
  /\ call.fn = "formatTag"
  /\ call.tag = TagQuoteInGap
  /\ call.caseFormat = "titlecase"
  /\ result = <<"A", "-", "B">>

\* the word pairs of the spelling table as <<uk, us>>
SpellingPairs == {<<spellingVariants[k][1], spellingVariants[k][2]>> : k \in 1..Len(spellingVariants)}

\* the pairs one side of which is the lowercase form of the tag
pairsOf(tag) == {p \in SpellingPairs : toLowerCase(tag) \in {p[1], p[2]}}

\* the word with its first letter in the case of the first letter of tag
capitalizedLike(tag, word) ==
  IF \E k \in 1..26 : tag[1] = UpperLetters[k]
  THEN <<toUpperChar(word[1])>> \o SubSeq(word, 2, Len(word))
  ELSE word

\* C26: normalizeSpelling returns, for a tag that is a word of a spelling
\* pair, the side of the pair for the language, capitalized as the tag is;
\* any other tag unchanged; and the same again when applied to its result
C26_PreferredSpellingOfPair ==
  call.fn = "normalizeSpelling" =>
    /\ pairsOf(call.tag) = {} => result.once = call.tag
    /\ \A p \in pairsOf(call.tag) :
         result.once = capitalizedLike(call.tag,
                                       IF call.languagePreference = "uk" THEN p[1] ELSE p[2])
    /\ result.twice = result.once

\* normalizeSpelling(`COLOR`, uk) is `Colour`
C26_Witness ==
  /\ call.fn = "normalizeSpelling"
  /\ call.tag = TagColorUpper
  /\ call.languagePreference = "uk"
  /\ result.once = <<"C", "o", "l", "o", "u", "r">>

\* the text in front of the last occurrence of two line breaks and the
\* document the call was made with
blockOf(doc) == SubSeq(result, 1, Len(result) - Len(doc) - 2)

\* C27: for a document without a closed frontmatter block and a non-empty
\* tag list manageFrontmatterTags returns a block, two line breaks and the
\* document as it was; no placeholder is left in the block, and every new
\* tag, formatted and spelled as preferred, is read back from the block
C27_FreshBlockHoldsNewTags ==
  call.fn = "manageFrontmatterTags" =>
    /\ Len(result) >= Len(call.content) + 2
    /\ SubSeq(result, Len(result) - Len(call.content) - 1, Len(result))
         = <<"\n", "\n">> \o call.content
    /\ ~includes(blockOf(call.content), <<"{", "{">>)
    /\ startsWith(result, Delimiter)
    /\ hasFrontmatterBlock(result)
    /\ Range(keysOf(normalizedTags(call.tags, call.tagCaseFormat, "uk")))
         \subseteq Range(keysOf(fieldTags(result)))

\* the selected provider is one that needs a credential and has none
lacksCredential(s) ==
  \/ s.aiProvider = "openai" /\ s.openAIApiKey = ""
  \/ s.aiProvider = "gemini" /\ (s.googleClientId = "" \/ s.googleClientSecret = "")
  \/ s.aiProvider = "mistral" /\ s.mistralAiApiKey = ""

\* C28: with a provider whose credential is missing, or for which no
\* request function exists, generateTags never returns a list to its caller
C28_MisconfiguredProviderRaises ==
  (lacksCredential(settings) \/ settings.aiProvider \notin {"ollama", "openai"}) =>
    \A i \in Ops : ~Generated(i)

\* run i has appended its tags to the document
Appended(i) == op[i].kind = "md" /\ op[i].mode = "append" /\ op[i].outcome = "written"

\* C29: when two append runs that both read the document before either
\* wrote it have both written, the tags field holds the tags of both
C29_NoLostUpdate ==
  \A i, j \in Ops :
    (i # j /\ Appended(i) /\ Appended(j) /\ op[i].fileContent = op[j].fileContent) =>
      Range(spelledKeysOf(op[i].tags)) \cup Range(spelledKeysOf(op[j].tags))
        \subseteq Range(keysOf(fieldTags(content)))

\* C30: an append of the same tags with the same settings to the result of
\* an append returns that result unchanged
C30_AppendFixedPoint ==
  (Len(log) = 2 /\ log[1].mode = "append" /\ log[2].mode = "append") =>
    content = log[2].before

====
